---------------------------- MODULE Spec2Model ----------------------------
(***************************************************************************)
(* Model of the Taipei bus arrival client                                  *)
(* (scripts/orginal_python_script/consForBeingProductive/main.py).         *)
(*                                                                         *)
(* A Python str is modelled as the sequence of its Unicode code points, a  *)
(* Python int as a sign and a sequence of decimal digits (most significant *)
(* first, no leading zero, the empty sequence for 0), a Python float as    *)
(* the IEEE-754 binary64 value it holds (a 53-bit significand), a dict as  *)
(* a function.                                                             *)
(***************************************************************************)
EXTENDS Integers, Sequences, FiniteSets, TLC

VARIABLES
    time_value,         \* _format_arrival_time: its argument
    formatted,          \* _format_arrival_time: its outcome, or Pending
    stop_mapping,       \* self.stop_mapping: stop name -> stop location id
    stop_name,          \* get_stop_estimates: its argument
    pc,                 \* get_stop_estimates: where the call stands
    requests,           \* the HTTP requests the call has issued, by kind
    static_response,    \* what stoplocation.jsp answered, or Pending
    dynamic_response,   \* what StopLocationDyna answered, or Pending
    route_map,          \* the static route information, or Pending
    json_data,          \* the dynamic arrival data, or Pending
    report              \* the outcome of the call, or Pending

vars == <<time_value, formatted, stop_mapping, stop_name, pc, requests,
          static_response, dynamic_response, route_map, json_data, report>>

\* The variables of get_stop_estimates and of its parts.
clientVars == <<stop_mapping, stop_name, pc, requests, static_response,
                dynamic_response, route_map, json_data, report>>

Pending == [kind |-> "pending"]
Return(v) == [kind |-> "return", value |-> v]
Raise(e) == [kind |-> "raise", error |-> e]

-----------------------------------------------------------------------------
(* Characters (code points) the code names or that int() and str() read.   *)
CH_SPACE == 32
CH_PLUS == 43
CH_COMMA == 44
CH_MINUS == 45
CH_ZERO == 48
CH_NINE == 57
CH_UNDERSCORE == 95
CH_a == 97

\* The labels of STATUS_CODES and of _format_arrival_time, as code points.
L_ARRIVING == <<36914, 31449, 20013>>                  \* "進站中"
L_NOT_DEPARTED == <<26410, 30332, 36554>>              \* "未發車"
L_TRAFFIC_CONTROL == <<20132, 31649, 19981, 20572>>    \* "交管不停"
L_LAST_BUS_PASSED == <<26411, 29677, 24050, 36942>>    \* "末班已過"
L_NOT_OPERATING == <<20170, 26085, 26410, 29151, 36939>> \* "今日未營運"
L_SOON == <<23559, 21040, 31449>>                      \* "將到站"
L_MINUTES == <<20998>>                                 \* "分"
L_ANOMALY == <<25976, 25818, 30064, 24120>>            \* "數據異常"
L_MALFORMED == <<36039, 26009, 26684, 24335, 37679, 35492>> \* "資料格式錯誤"

STATUS_CODES ==
    (<<CH_ZERO>> :> L_ARRIVING)
    @@ (<<>> :> L_NOT_DEPARTED)
    @@ (<<CH_MINUS, CH_ZERO + 1>> :> L_NOT_DEPARTED)
    @@ (<<CH_MINUS, CH_ZERO + 2>> :> L_TRAFFIC_CONTROL)
    @@ (<<CH_MINUS, CH_ZERO + 3>> :> L_LAST_BUS_PASSED)
    @@ (<<CH_MINUS, CH_ZERO + 4>> :> L_NOT_OPERATING)

-----------------------------------------------------------------------------
(* Python's int(str) and str(int).                                         *)

IsDigit(c) == c >= CH_ZERO /\ c <= CH_NINE
\* str.isspace() over the ASCII range, the whitespace int() strips.
IsSpace(c) == c \in {9, 10, 11, 12, 13, 28, 29, 30, 31, CH_SPACE}

RECURSIVE LStrip(_)
LStrip(s) ==
    IF s # <<>> /\ IsSpace(Head(s)) THEN LStrip(Tail(s)) ELSE s

RECURSIVE RStrip(_)
RStrip(s) ==
    IF s # <<>> /\ IsSpace(s[Len(s)]) THEN RStrip(SubSeq(s, 1, Len(s) - 1)) ELSE s

\* str.strip()
Strip(s) == RStrip(LStrip(s))

RECURSIVE StripZeros(_)
StripZeros(d) ==
    IF d # <<>> /\ Head(d) = 0 THEN StripZeros(Tail(d)) ELSE d

\* The digits of a literal body: digits, with single underscores allowed
\* between two digits only.
ValidDigits(s) ==
    /\ s # <<>>
    /\ \A i \in 1..Len(s) :
        \/ IsDigit(s[i])
        \/ /\ s[i] = CH_UNDERSCORE
           /\ i > 1 /\ i < Len(s)
           /\ IsDigit(s[i - 1]) /\ IsDigit(s[i + 1])

RECURSIVE DigitsOf(_)
DigitsOf(s) ==
    IF s = <<>> THEN <<>>
    ELSE IF IsDigit(Head(s)) THEN <<Head(s) - CH_ZERO>> \o DigitsOf(Tail(s))
    ELSE DigitsOf(Tail(s))

MkInt(neg, mag) == [neg |-> neg /\ mag # <<>>, mag |-> mag]
ValueError == [error |-> "ValueError"]

\* int(s), base 10: surrounding whitespace is stripped, one sign is read,
\* then the digits; anything else is a ValueError.
ParseDigits(neg, body) ==
    IF ValidDigits(body) THEN MkInt(neg, StripZeros(DigitsOf(body)))
    ELSE ValueError

ParseSigned(t) ==
    IF t # <<>> /\ Head(t) \in {CH_PLUS, CH_MINUS}
    THEN ParseDigits(Head(t) = CH_MINUS, Tail(t))
    ELSE ParseDigits(FALSE, t)

ParseInt(s) == ParseSigned(Strip(s))

RECURSIVE NatDigits(_)
NatDigits(n) ==
    IF n = 0 THEN <<>> ELSE NatDigits(n \div 10) \o <<n % 10>>

\* The int of a small natural.
NatInt(n) == MkInt(FALSE, NatDigits(n))

RECURSIVE DigitChars(_)
DigitChars(d) ==
    IF d = <<>> THEN <<>> ELSE <<Head(d) + CH_ZERO>> \o DigitChars(Tail(d))

\* str(i)
IntStr(i) ==
    IF i.mag = <<>> THEN <<CH_ZERO>>
    ELSE (IF i.neg THEN <<CH_MINUS>> ELSE <<>>) \o DigitChars(i.mag)

\* a < b on magnitudes
RECURSIVE LexLess(_, _)
LexLess(a, b) ==
    IF a = <<>> \/ b = <<>> THEN a = <<>> /\ b # <<>>
    ELSE IF Head(a) # Head(b) THEN Head(a) < Head(b)
    ELSE LexLess(Tail(a), Tail(b))

MagLess(a, b) ==
    Len(a) < Len(b) \/ (Len(a) = Len(b) /\ LexLess(a, b))

\* a < b on ints
IntLess(a, b) ==
    IF a.neg /\ ~b.neg THEN TRUE
    ELSE IF ~a.neg /\ b.neg THEN FALSE
    ELSE IF a.neg THEN MagLess(b.mag, a.mag)
    ELSE MagLess(a.mag, b.mag)

-----------------------------------------------------------------------------
(* seconds / 60 is Python's true division: the quotient of the two ints,   *)
(* correctly rounded (to nearest, ties to even) to a binary64 float, or an *)
(* OverflowError when that is beyond the float range.  math.floor then     *)
(* gives the integer part of the float, exactly.                           *)

SECONDS_PER_MINUTE == 60
SOON_LIMIT == 180
FLOAT_MANT_DIG == 53      \* sys.float_info.mant_dig
FLOAT_MAX_EXP == 1024     \* sys.float_info.max_exp

\* n % k for the first i digits of a magnitude, k small.
RECURSIVE PrefixMod(_, _, _)
PrefixMod(d, i, k) ==
    IF i = 0 THEN 0 ELSE (PrefixMod(d, i - 1, k) * 10 + d[i]) % k

\* n // k and n % k, exactly, by long division.
MagDiv(d, k) ==
    StripZeros([i \in 1..Len(d) |-> (PrefixMod(d, i - 1, k) * 10 + d[i]) \div k])
MagMod(d, k) == PrefixMod(d, Len(d), k)

\* 2^n
RECURSIVE Pow2(_)
Pow2(n) == IF n = 0 THEN 1 ELSE 2 * Pow2(n - 1)

\* The conversions below work ten binary digits (a limb, base 1024) at a
\* time.
LimbBits == 10
LimbBase == Pow2(LimbBits)

\* The n binary digits of v < 2^n, most significant first.
NatBits(v, n) == [i \in 1..n |-> (v \div Pow2(n - i)) % 2]

\* The value of a short sequence of binary digits.
RECURSIVE BitsNat(_)
BitsNat(bits) ==
    IF bits = <<>> THEN 0
    ELSE 2 * BitsNat(SubSeq(bits, 1, Len(bits) - 1)) + bits[Len(bits)]

\* The limbs of a magnitude, most significant first.
RECURSIVE MagLimbs(_)
MagLimbs(d) ==
    IF d = <<>> THEN <<>>
    ELSE MagLimbs(MagDiv(d, LimbBase)) \o <<MagMod(d, LimbBase)>>

\* The binary digits of a magnitude, most significant first.
LimbsBits(limbs) ==
    StripZeros([i \in 1..(LimbBits * Len(limbs)) |->
        NatBits(limbs[((i - 1) \div LimbBits) + 1], LimbBits)[((i - 1) % LimbBits) + 1]])

MagBits(d) == LimbsBits(MagLimbs(d))

\* k * d + c on decimal digits (least significant digit last), k and c small.
RECURSIVE MulAdd(_, _, _)
MulAdd(d, k, c) ==
    IF d = <<>> THEN NatDigits(c)
    ELSE LET v == k * d[Len(d)] + c
         IN  MulAdd(SubSeq(d, 1, Len(d) - 1), k, v \div 10) \o <<v % 10>>

\* The magnitude whose binary digits are bits.
RECURSIVE BitsMag(_)
BitsMag(bits) ==
    IF Len(bits) <= LimbBits THEN NatDigits(BitsNat(bits))
    ELSE MulAdd(BitsMag(SubSeq(bits, 1, Len(bits) - LimbBits)), LimbBase,
                BitsNat(SubSeq(bits, Len(bits) - LimbBits + 1, Len(bits))))

\* bits + 1
BitsInc(bits) ==
    IF \A i \in 1..Len(bits) : bits[i] = 1
    THEN <<1>> \o [i \in 1..Len(bits) |-> 0]
    ELSE LET z == CHOOSE i \in 1..Len(bits) :
                    bits[i] = 0 /\ \A j \in (i + 1)..Len(bits) : bits[j] = 1
         IN  [i \in 1..Len(bits) |->
                IF i < z THEN bits[i] ELSE IF i = z THEN 1 ELSE 0]

\* The first m binary digits of the fraction r / k, and what is left of r.
RECURSIVE FracBits(_, _, _)
FracBits(r, k, m) ==
    IF m = 0 THEN <<<<>>, r>>
    ELSE LET n == IF m < LimbBits THEN m ELSE LimbBits
             scaled == r * Pow2(n)
             rest == FracBits(scaled % k, k, m - n)
         IN  <<NatBits(scaled \div k, n) \o rest[1], rest[2]>>

Zeros(n) == [i \in 1..n |-> 0]

\* Round to nearest, ties to even: mant, with what lies below it more than,
\* or just, half of its last place.
RoundHalfEven(mant, above, tie) ==
    IF above \/ (tie /\ mant[Len(mant)] = 1) THEN BitsInc(mant) ELSE mant

\* The quotient has its FLOAT_MANT_DIG bits with m bits of the fraction
\* r / k: round on the rest of the fraction, keep the integer part.
RoundFraction(q, f, k, m) ==
    SubSeq(RoundHalfEven(q \o f[1], 2 * f[2] > k, 2 * f[2] = k), 1,
           Len(RoundHalfEven(q \o f[1], 2 * f[2] > k, 2 * f[2] = k)) - m)

\* Something is left below the guard bit.
Sticky(q, r) ==
    r > 0 \/ \E i \in (FLOAT_MANT_DIG + 2)..Len(q) : q[i] = 1

\* The quotient is longer than FLOAT_MANT_DIG bits: round on the bits
\* dropped, which become zeros.
RoundInteger(q, r) ==
    RoundHalfEven(SubSeq(q, 1, FLOAT_MANT_DIG),
                  q[FLOAT_MANT_DIG + 1] = 1 /\ Sticky(q, r),
                  q[FLOAT_MANT_DIG + 1] = 1 /\ ~Sticky(q, r))
    \o Zeros(Len(q) - FLOAT_MANT_DIG)

\* The float q + r / k as the bits of its integer part: the first
\* FLOAT_MANT_DIG significant bits, rounded on everything below them.
RoundQuotient(q, r, k) ==
    IF Len(q) <= FLOAT_MANT_DIG
    THEN RoundFraction(q, FracBits(r, k, FLOAT_MANT_DIG - Len(q)), k,
                       FLOAT_MANT_DIG - Len(q))
    ELSE RoundInteger(q, r)

\* float(n / k) for n >= k
RoundedQuotientBits(d, k) ==
    RoundQuotient(MagBits(MagDiv(d, k)), MagMod(d, k), k)

\* math.floor of the float: the int, or the OverflowError of the division.
FloatFloor(bits) ==
    IF Len(bits) > FLOAT_MAX_EXP THEN [error |-> "OverflowError"]
    ELSE MkInt(FALSE, BitsMag(bits))

\* math.floor(seconds / 60) for seconds >= 180
FloorTrueDiv(d, k) == FloatFloor(RoundedQuotientBits(d, k))

-----------------------------------------------------------------------------
(* TaipeiBusAPI._format_arrival_time                                       *)

\* dict.get(key, default)
DictGet(d, key, default) == IF key \in DOMAIN d THEN d[key] ELSE default

\* Mutant: a negative count is taken for a malformed value.
NegativeLabel_Malformed(seconds) == L_MALFORMED

\* The else branch: seconds is negative.
NegativeLabel(seconds) == DictGet(STATUS_CODES, IntStr(seconds), L_ANOMALY)

MinutesLabel(minutes) ==
    IF "error" \in DOMAIN minutes THEN Raise(minutes.error)
    ELSE Return(IntStr(minutes) \o L_MINUTES)

\* The try block, after int(time_value).
FormatSeconds(seconds) ==
    IF "error" \in DOMAIN seconds THEN Return(L_MALFORMED)
    ELSE IF seconds.mag = <<>> THEN Return(L_ARRIVING)
    ELSE IF ~seconds.neg /\ IntLess(seconds, NatInt(SOON_LIMIT))
    THEN Return(L_SOON)
    ELSE IF ~seconds.neg
    THEN MinutesLabel(FloorTrueDiv(seconds.mag, SECONDS_PER_MINUTE))
    ELSE Return(NegativeLabel(seconds))

\* The try block.
ParseFirst(time_value_) == FormatSeconds(ParseInt(time_value_))

\* Mutant: the value is parsed before the table is looked at.
FormatArrivalTime_ParseOnly(time_value_) == ParseFirst(time_value_)

FormatArrivalTime(time_value_) ==
    IF time_value_ \in DOMAIN STATUS_CODES THEN Return(STATUS_CODES[time_value_])
    ELSE ParseFirst(time_value_)

-----------------------------------------------------------------------------
(* TaipeiBusAPI._fetch_route_info                                          *)
(*                                                                         *)
(* An optional value (Python's None, a missing attribute, a missing child) *)
(* is the empty sequence; a present one is the one-element sequence.  A    *)
(* td cell is [a: the text of its first <a> descendant, if any; text: its  *)
(* own text; id: its id attribute, if any]; a tr row is [class, cols].  An *)
(* HTTP response is [status, body], or [error] when requests.get raised.   *)

None == <<>>
Some(v) == <<v>>

NA == <<78, 47, 65>>                                   \* "N/A"
TTE == <<116, 116, 101>>                               \* "tte"
ROW_CLASSES == {"ttego1", "ttego2"}
ROW_COLUMNS == 4

\* str.replace(old, new): every occurrence of old, left to right, without
\* overlap.
RECURSIVE Replace(_, _, _)
Replace(s, old, new) ==
    IF Len(s) < Len(old) THEN s
    ELSE IF SubSeq(s, 1, Len(old)) = old
    THEN new \o Replace(SubSeq(s, Len(old) + 1, Len(s)), old, new)
    ELSE <<Head(s)>> \o Replace(Tail(s), old, new)

\* dict[key] = value
DictSet(d, key, value) ==
    [k \in DOMAIN d \cup {key} |-> IF k = key THEN value ELSE d[k]]

\* _extract_text(td_element, 'a')
ExtractText(td_element, default) ==
    IF td_element.a # None THEN Strip(td_element.a[1]) ELSE default

\* response.raise_for_status(): an HTTPError for a 4xx or 5xx status.
RaisesForStatus(response) ==
    response.status >= 400 /\ response.status < 600

\* soup.find_all('tr', class_=['ttego1', 'ttego2'])
FindBusRows(body) ==
    LET keep == {i \in 1..Len(body) : body[i].class \in ROW_CLASSES}
        F[i \in 0..Len(body)] ==
            IF i = 0 THEN <<>>
            ELSE IF i \in keep THEN Append(F[i - 1], body[i]) ELSE F[i - 1]
    IN  F[Len(body)]

\* The time cell's id is there and not empty.
HasDynamicId(time_td) == time_td.id # None /\ time_td.id[1] # <<>>

\* The key a time cell's id gives.
DynamicIdOf(time_td) == Replace(time_td.id[1], TTE, <<>>)

\* Mutant: the first row of a key wins.
RouteMapStep_FirstWins(map, row) ==
    LET cols == row.cols
    IN  IF Len(cols) # ROW_COLUMNS THEN map
        ELSE IF ~HasDynamicId(cols[4]) THEN map
        ELSE IF DynamicIdOf(cols[4]) \in DOMAIN map THEN map
        ELSE DictSet(map, DynamicIdOf(cols[4]),
                     [route |-> ExtractText(cols[1], NA),
                      stop |-> ExtractText(cols[2], NA),
                      direction |-> Strip(cols[3].text)])

\* One turn of the loop over the rows.
RouteMapStep(map, row) ==
    LET cols == row.cols
    IN  IF Len(cols) # ROW_COLUMNS THEN map
        ELSE IF ~HasDynamicId(cols[4]) THEN map
        ELSE DictSet(map, DynamicIdOf(cols[4]),
                     [route |-> ExtractText(cols[1], NA),      \* "路線"
                      stop |-> ExtractText(cols[2], NA),       \* "站牌"
                      direction |-> Strip(cols[3].text)])      \* "去返程"

RouteMapOf(bus_rows) ==
    LET F[i \in 0..Len(bus_rows)] ==
            IF i = 0 THEN <<>> ELSE RouteMapStep(F[i - 1], bus_rows[i])
    IN  F[Len(bus_rows)]

\* Mutant: raise_for_status() is not called.
FetchRouteInfo_Unchecked(response) ==
    IF "error" \in DOMAIN response THEN Raise(response.error)
    ELSE Return(RouteMapOf(FindBusRows(response.body)))

FetchRouteInfo(response) ==
    IF "error" \in DOMAIN response THEN Raise(response.error)
    ELSE IF RaisesForStatus(response) THEN Raise("HTTPError")
    ELSE Return(RouteMapOf(FindBusRows(response.body)))

-----------------------------------------------------------------------------
(* TaipeiBusAPI._fetch_dynamic_data and TaipeiBusAPI._process_arrivals     *)
(*                                                                         *)
(* A JSON object is a record that has the fields the object has.  A JSON   *)
(* number is [int |-> n], a JSON string [str |-> s].                       *)

N1_FIELDS == 8
COLON == <<58>>                                        \* ":"
COLON_ENTITY == <<38, 35, 120, 51, 97, 59>>            \* "&#x3a;"
UNKNOWN_ROUTE == <<26410, 30693, 36335, 32218, 32, 40, 73, 68, 58>> \* "未知路線 (ID:"
CLOSE_PAREN == <<41>>                                  \* ")"

\* response.json(): the body's JSON value, or a JSONDecodeError.
FetchDynamicData(response) ==
    IF "error" \in DOMAIN response THEN Raise(response.error)
    ELSE IF RaisesForStatus(response) THEN Raise("HTTPError")
    ELSE IF "invalid" \in DOMAIN response.body THEN Raise("JSONDecodeError")
    ELSE Return(response.body)

\* str.split(sep), sep one character
RECURSIVE Split(_, _)
Split(s, sep) ==
    IF \A i \in 1..Len(s) : s[i] # sep THEN <<s>>
    ELSE LET at == CHOOSE i \in 1..Len(s) :
                        s[i] = sep /\ \A j \in 1..(i - 1) : s[j] # sep
         IN  <<SubSeq(s, 1, at - 1)>> \o Split(SubSeq(s, at + 1, Len(s)), sep)

\* str(value) of a JSON number or string
PyStr(value) ==
    IF "int" \in DOMAIN value THEN IntStr(NatInt(value.int)) ELSE value.str

\* a < b on str: by code point, lexicographic
StrLess(a, b) == LexLess(a, b)

\* Mutant: x goes before the elements of its own key.
InsertByRoute_BeforeEqual(sorted, x) ==
    LET k == Cardinality({j \in 1..Len(sorted) : StrLess(sorted[j].route, x.route)})
    IN  SubSeq(sorted, 1, k) \o <<x>> \o SubSeq(sorted, k + 1, Len(sorted))

\* The place list.sort gives x among the sorted before it: behind every
\* element whose key is not greater.
InsertByRoute(sorted, x) ==
    LET k == Cardinality({j \in 1..Len(sorted) : ~StrLess(x.route, sorted[j].route)})
    IN  SubSeq(sorted, 1, k) \o <<x>> \o SubSeq(sorted, k + 1, Len(sorted))

\* arrivals.sort(key=lambda x: x.route): ascending, stable
SortByRoute(arrivals) ==
    LET F[i \in 0..Len(arrivals)] ==
            IF i = 0 THEN <<>> ELSE InsertByRoute(F[i - 1], arrivals[i])
    IN  F[Len(arrivals)]

\* Mutant: the static record is looked up by the dynamic key.
StaticKey_ByDynamicId(stop_entry, stop_dynamic_id) == stop_dynamic_id

\* The key the static record of an entry is looked up by.
StaticKey(stop_entry, stop_dynamic_id) == PyStr(stop_entry.id)

\* The static record of no route.
FallbackInfo(stop_dynamic_id) ==
    [route |-> UNKNOWN_ROUTE \o stop_dynamic_id \o CLOSE_PAREN,
     direction |-> NA]

\* The entry counts when it has "n1" and n1 has its 8 values.
HasArrival(stop_entry) ==
    /\ "n1" \in DOMAIN stop_entry
    /\ Len(Split(stop_entry.n1, CH_COMMA)) >= N1_FIELDS

BusArrival(static_info, estimated_time, raw_time, stop_dynamic_id) ==
    [route |-> static_info.route,
     direction |-> static_info.direction,
     estimated_time |-> estimated_time,
     raw_time_value |-> raw_time,
     stop_dynamic_id |-> stop_dynamic_id]

\* route_map.get(str(stop_entry['id']), fallback)
StaticInfo(stop_entry, stop_dynamic_id, route_map_) ==
    DictGet(route_map_, StaticKey(stop_entry, stop_dynamic_id),
            FallbackInfo(stop_dynamic_id))

\* Mutant: an entry without a static record is skipped.
AppendArrival_DropUnknown(acc, stop_entry, stop_dynamic_id, raw_time, estimated_time, route_map_) ==
    IF estimated_time.kind = "raise" THEN estimated_time
    ELSE IF "id" \notin DOMAIN stop_entry THEN Raise("KeyError")
    ELSE IF StaticKey(stop_entry, stop_dynamic_id) \notin DOMAIN route_map_ THEN acc
    ELSE Return(Append(acc.value,
                       BusArrival(route_map_[StaticKey(stop_entry, stop_dynamic_id)],
                                  estimated_time.value, raw_time, stop_dynamic_id)))

\* The loop's body from the formatted time on: the arrivals so far with
\* this entry's, or the exception raised.
AppendArrival(acc, stop_entry, stop_dynamic_id, raw_time, estimated_time, route_map_) ==
    IF estimated_time.kind = "raise" THEN estimated_time
    ELSE IF "id" \notin DOMAIN stop_entry THEN Raise("KeyError")
    ELSE Return(Append(acc.value,
                       BusArrival(StaticInfo(stop_entry, stop_dynamic_id, route_map_),
                                  estimated_time.value, raw_time, stop_dynamic_id)))

ArrivalOf(acc, stop_entry, n1_parts, route_map_) ==
    AppendArrival(acc, stop_entry, n1_parts[2], n1_parts[8],
                  FormatArrivalTime(n1_parts[8]), route_map_)

\* One turn of the loop over json_data["Stop"]: the arrivals so far, or
\* the exception that ended the loop.
ArrivalStep(acc, stop_entry, route_map_) ==
    IF acc.kind = "raise" THEN acc
    ELSE IF ~HasArrival(stop_entry) THEN acc
    ELSE ArrivalOf(acc, stop_entry, Split(stop_entry.n1, CH_COMMA), route_map_)

\* The loop over json_data.get("Stop", [])
ArrivalsOf(stops, route_map_) ==
    LET F[i \in 0..Len(stops)] ==
            IF i = 0 THEN Return(<<>>)
            ELSE ArrivalStep(F[i - 1], stops[i], route_map_)
    IN  F[Len(stops)]

\* json_data.get("UpdateTime", "N/A").replace('&#x3a;', ':')
UpdateTimeOf(json_data_) ==
    Replace(DictGet(json_data_, "UpdateTime", NA), COLON_ENTITY, COLON)

\* The sort and the return, when the loop raised nothing.
ReportOf(looped, update_time) ==
    IF looped.kind = "raise" THEN looped
    ELSE Return([arrivals |-> SortByRoute(looped.value),
                 update_time |-> update_time])

\* The report: (arrivals, update_time), or the exception raised.
ProcessArrivals(json_data_, route_map_) ==
    ReportOf(ArrivalsOf(DictGet(json_data_, "Stop", <<>>), route_map_),
             UpdateTimeOf(json_data_))

-----------------------------------------------------------------------------
(* TaipeiBusAPI.get_stop_estimates                                         *)

\* Mutant: the check of stop_id is left out.
StopResolved_Always(stop_id) == TRUE

\* `if not stop_id`: the name has an id, and the id is not empty.
StopResolved(stop_id) == stop_id # None /\ stop_id[1] # <<>>

\* self.stop_mapping.get(stop_name)
StopIdOf(mapping, name) ==
    IF name \in DOMAIN mapping THEN Some(mapping[name]) ELSE None

EmptyReport == Return([arrivals |-> <<>>, update_time |-> <<>>])

-----------------------------------------------------------------------------
(* Inputs.                                                                 *)

MaxTimeLen == 3

\* Every str of at most n characters of alphabet.
Strings(alphabet, n) == UNION {[1..k -> alphabet] : k \in 0..n}

TimeAlphabet ==
    {CH_SPACE, CH_PLUS, CH_MINUS, CH_UNDERSCORE, CH_a} \cup CH_ZERO..CH_NINE

\* Second counts beyond 2^53 minutes' worth, where a float no longer holds
\* every integer: 60 * 2^48 + 59, 60 * 2^48, 60 * (2^53 + 1), 10^18 - 1.
LongTimes ==
    { DigitChars(<<1,6,8,8,8,4,9,8,6,0,2,6,3,9,4,1,9>>),
      DigitChars(<<1,6,8,8,8,4,9,8,6,0,2,6,3,9,3,6,0>>),
      DigitChars(<<5,4,0,4,3,1,9,5,5,2,8,4,4,5,9,5,8,0>>),
      DigitChars(<<9,9,9,9,9,9,9,9,9,9,9,9,9,9,9,9,9,9>>) }

RawTimes == Strings(TimeAlphabet, MaxTimeLen) \cup LongTimes

\* Strings the inputs are made of.
S_4 == <<52>>                                          \* "4"
S_8 == <<56>>                                          \* "8"
S_9 == <<57>>                                          \* "9"
S_A == <<65>>                                          \* "A"
S_B == <<66>>                                          \* "B"
S_A_PADDED == <<32, 65, 32>>                           \* " A "
S_GO == <<21435>>                                      \* "去"
S_BACK_PADDED == <<32, 36820, 10>>                     \* " 返\n"
S_STOP == <<20844, 39208>>                             \* "公館"
S_TTE4 == TTE \o S_4                                   \* "tte4"
S_TTE8 == TTE \o S_8                                   \* "tte8"
S_8TTE == S_8 \o TTE                                   \* "8tte"
S_UPDATE == <<49, 50>> \o COLON_ENTITY \o <<51, 48>>   \* "12&#x3a;30"

Cell(a, text, id) == [a |-> a, text |-> text, id |-> id]
Row(class, cols) == [class |-> class, cols |-> cols]

RouteCells ==
    { Cell(Some(S_A_PADDED), S_A_PADDED, None),
      Cell(Some(S_B), S_B, None),
      Cell(None, S_A, None) }
StopCell == Cell(Some(S_STOP), S_STOP, None)
DirectionCell == Cell(None, S_BACK_PADDED, None)
TimeIds == {None, Some(<<>>), Some(S_TTE4), Some(S_TTE8), Some(S_8TTE)}
TimeCell(id) == Cell(None, <<>>, id)

\* The tr elements of a page: route rows of four columns, a route row of
\* three and one of five, and a row of another class.
RowKinds ==
    { Row("ttego1", <<rc, StopCell, DirectionCell, TimeCell(id)>>) :
        rc \in RouteCells, id \in TimeIds }
    \cup { Row("ttego2", <<Cell(Some(S_B), S_B, None), StopCell,
                          Cell(None, S_GO, None), TimeCell(Some(S_TTE4))>>),
           Row("ttego1", <<Cell(Some(S_A), S_A, None), StopCell,
                          TimeCell(Some(S_TTE8))>>),
           Row("ttego2", <<Cell(Some(S_A), S_A, None), StopCell, DirectionCell,
                          TimeCell(Some(S_TTE8)), TimeCell(Some(S_TTE4))>>),
           Row("title", <<Cell(Some(S_A), S_A, None), StopCell, DirectionCell,
                         TimeCell(Some(S_TTE8))>>) }

MaxRows == 3

Pages == UNION {[1..k -> RowKinds] : k \in 0..MaxRows}

StaticResponses ==
    {[status |-> 200, body |-> page] : page \in Pages}
    \cup {[status |-> 404, body |-> <<>>], [error |-> "ConnectionError"]}

\* str.join
RECURSIVE Join(_, _)
Join(parts, sep) ==
    IF Len(parts) = 0 THEN <<>>
    ELSE IF Len(parts) = 1 THEN parts[1]
    ELSE parts[1] \o <<sep>> \o Join(Tail(parts), sep)

\* An "n1" of n values, the dynamic id second and, when n reaches it, the
\* raw time eighth.
N1(n, dynamic_id, raw_time) ==
    Join([i \in 1..n |->
            IF i = 2 THEN dynamic_id ELSE IF i = N1_FIELDS THEN raw_time ELSE S_A],
         CH_COMMA)

T_0 == <<CH_ZERO>>                                     \* "0"
T_185 == <<49, 56, 53>>                                \* "185"
T_90 == <<57, 48>>                                     \* "90"
T_ABC == <<97, 98, 99>>                                \* "abc"
T_MINUS3 == <<CH_MINUS, 51>>                           \* "-3"

\* The entries of a feed: well-formed ones with and without a static
\* record, one without "id", one without "n1", one whose "n1" is short.
StopEntries ==
    { [id |-> [int |-> 4], n1 |-> N1(8, S_4, T_0)],
      [id |-> [int |-> 8], n1 |-> N1(8, S_8, T_185)],
      [id |-> [int |-> 8], n1 |-> N1(8, S_8, T_ABC)],
      [id |-> [int |-> 9], n1 |-> N1(8, S_4, T_MINUS3)],
      [id |-> [str |-> S_4], n1 |-> N1(9, S_9, <<>>)],
      [n1 |-> N1(8, S_8, T_90)],
      [id |-> [int |-> 4]],
      [id |-> [int |-> 4], n1 |-> N1(7, S_4, T_0)] }

MaxStops == 3

StopLists == UNION {[1..k -> StopEntries] : k \in 0..MaxStops}

Feeds ==
    {[UpdateTime |-> S_UPDATE, Stop |-> stops] : stops \in StopLists}
    \cup {[Stop |-> stops] : stops \in {l \in StopLists : Len(l) <= 1}}
    \cup {[UpdateTime |-> S_UPDATE]}

Info(route, direction) == [route |-> route, stop |-> S_STOP, direction |-> direction]

RouteMaps ==
    { <<>>,
      (S_4 :> Info(S_B, S_GO)) @@ (S_8 :> Info(S_A, S_GO)),
      (S_4 :> Info(S_A, S_GO)) @@ (S_8 :> Info(S_A, S_GO)) }

-----------------------------------------------------------------------------
(* The formatter on its own: any raw time value, then one call.            *)

\* No get_stop_estimates call is under way.
ClientIdle ==
    /\ stop_mapping = <<>>
    /\ stop_name = <<>>
    /\ pc = "idle"
    /\ requests = [static |-> 0, dynamic |-> 0]
    /\ static_response = Pending
    /\ dynamic_response = Pending
    /\ route_map = Pending
    /\ json_data = Pending
    /\ report = Pending

InitFormat ==
    /\ time_value \in RawTimes
    /\ formatted = Pending
    /\ ClientIdle

CallFormatArrivalTime ==
    /\ formatted = Pending
    /\ formatted' = FormatArrivalTime(time_value)
    /\ UNCHANGED <<time_value, clientVars>>

NextFormat == CallFormatArrivalTime

SpecFormat == InitFormat /\ [][NextFormat]_vars

-----------------------------------------------------------------------------
(* The static fetch on its own: any answer, then one call.                 *)

InitRoutes ==
    /\ time_value = <<>>
    /\ formatted = Pending
    /\ stop_mapping = <<>>
    /\ stop_name = <<>>
    /\ pc = "static"
    /\ requests = [static |-> 1, dynamic |-> 0]
    /\ static_response \in StaticResponses
    /\ dynamic_response = Pending
    /\ route_map = Pending
    /\ json_data = Pending
    /\ report = Pending

CallFetchRouteInfo ==
    /\ pc = "static"
    /\ route_map' = FetchRouteInfo(static_response)
    /\ pc' = "done"
    /\ UNCHANGED <<time_value, formatted, stop_mapping, stop_name, requests,
                   static_response, dynamic_response, json_data, report>>

NextRoutes == CallFetchRouteInfo

SpecRoutes == InitRoutes /\ [][NextRoutes]_vars

-----------------------------------------------------------------------------
(* The reconciliation on its own: any feed and route map, then one call.   *)

InitProcess ==
    /\ time_value = <<>>
    /\ formatted = Pending
    /\ stop_mapping = <<>>
    /\ stop_name = <<>>
    /\ pc = "process"
    /\ requests = [static |-> 1, dynamic |-> 1]
    /\ static_response = Pending
    /\ dynamic_response = Pending
    /\ route_map \in RouteMaps
    /\ json_data \in Feeds
    /\ report = Pending

CallProcessArrivals ==
    /\ pc = "process"
    /\ report' = ProcessArrivals(json_data, route_map)
    /\ pc' = "done"
    /\ UNCHANGED <<time_value, formatted, stop_mapping, stop_name, requests,
                   static_response, dynamic_response, route_map, json_data>>

NextProcess == CallProcessArrivals

SpecProcess == InitProcess /\ [][NextProcess]_vars

-----------------------------------------------------------------------------
(* The client: calls of get_stop_estimates, one after the other, each with *)
(* the answers the two HTTP requests happen to get.                        *)

N_GONGGUAN == <<20844, 39208>>                         \* "公館"
N_NEW == <<26032, 31449>>                              \* "新站"
N_BLANK == <<31354>>                                   \* "空"
N_TAIDA == <<21488, 22823>>                            \* "台大"
S_10 == <<49, 48>>                                     \* "10"
S_20 == <<50, 48>>                                     \* "20"

StopNames == {N_GONGGUAN, N_TAIDA, N_NEW, N_BLANK}

\* stop_to_slid.json: one stop with an id, one with an empty id; one name
\* is not in it.
StopMappings ==
    { (N_GONGGUAN :> S_10) @@ (N_TAIDA :> S_20) @@ (N_BLANK :> <<>>),
      (N_GONGGUAN :> S_10) }

ClientPages ==
    { <<>>,
      <<Row("ttego1", <<Cell(None, S_A, None), StopCell, DirectionCell,
                        TimeCell(None)>>)>>,
      <<Row("ttego1", <<Cell(Some(S_B), S_B, None), StopCell, DirectionCell,
                        TimeCell(Some(S_TTE4))>>),
        Row("ttego2", <<Cell(Some(S_A), S_A, None), StopCell, DirectionCell,
                        TimeCell(Some(S_TTE8))>>)>> }

ClientStaticResponses ==
    {[status |-> 200, body |-> page] : page \in ClientPages}
    \cup {[status |-> 404, body |-> <<>>], [error |-> "ConnectionError"]}

ClientFeeds ==
    { [UpdateTime |-> S_UPDATE,
       Stop |-> <<[id |-> [int |-> 4], n1 |-> N1(8, S_4, T_0)],
                  [id |-> [int |-> 8], n1 |-> N1(8, S_8, T_185)]>>],
      [Stop |-> <<[id |-> [int |-> 9], n1 |-> N1(8, S_4, T_MINUS3)]>>],
      [Stop |-> <<[n1 |-> N1(8, S_8, T_90)]>>],
      [Stop |-> <<[id |-> [int |-> 4], n1 |-> N1(7, S_4, T_0)],
                  [id |-> [str |-> S_8], n1 |-> N1(8, S_8, T_ABC)]>>],
      [UpdateTime |-> S_UPDATE] }

ClientDynamicResponses ==
    {[status |-> 200, body |-> feed] : feed \in ClientFeeds}
    \cup {[status |-> 200, body |-> [invalid |-> TRUE]],
          [status |-> 500, body |-> [invalid |-> TRUE]],
          [error |-> "Timeout"]}

Init ==
    /\ time_value = <<>>
    /\ formatted = Pending
    /\ stop_mapping \in StopMappings
    /\ stop_name = <<>>
    /\ pc = "idle"
    /\ requests = [static |-> 0, dynamic |-> 0]
    /\ static_response = Pending
    /\ dynamic_response = Pending
    /\ route_map = Pending
    /\ json_data = Pending
    /\ report = Pending

\* get_stop_estimates(name), up to its return or to its first request.
GetStopEstimates(name) ==
    /\ pc \in {"idle", "done"}
    /\ stop_name' = name
    /\ static_response' = Pending
    /\ dynamic_response' = Pending
    /\ route_map' = Pending
    /\ json_data' = Pending
    /\ IF ~StopResolved(StopIdOf(stop_mapping, name))
       THEN /\ report' = EmptyReport
            /\ pc' = "done"
            /\ requests' = [static |-> 0, dynamic |-> 0]
       ELSE /\ report' = Pending
            /\ pc' = "static"
            /\ requests' = [static |-> 1, dynamic |-> 0]
    /\ UNCHANGED <<time_value, formatted, stop_mapping>>

\* _fetch_route_info gets its answer; on success _fetch_dynamic_data sends
\* its request.
StaticAnswer(response) ==
    /\ pc = "static"
    /\ static_response' = response
    /\ LET fetched == FetchRouteInfo(response)
       IN  IF fetched.kind = "raise"
           THEN /\ report' = fetched
                /\ pc' = "done"
                /\ UNCHANGED <<route_map, requests>>
           ELSE /\ route_map' = fetched.value
                /\ pc' = "dynamic"
                /\ requests' = [requests EXCEPT !.dynamic = @ + 1]
                /\ UNCHANGED report
    /\ UNCHANGED <<time_value, formatted, stop_mapping, stop_name,
                   dynamic_response, json_data>>

\* _fetch_dynamic_data gets its answer.
DynamicAnswer(response) ==
    /\ pc = "dynamic"
    /\ dynamic_response' = response
    /\ LET fetched == FetchDynamicData(response)
       IN  IF fetched.kind = "raise"
           THEN /\ report' = fetched
                /\ pc' = "done"
                /\ UNCHANGED json_data
           ELSE /\ json_data' = fetched.value
                /\ pc' = "process"
                /\ UNCHANGED report
    /\ UNCHANGED <<time_value, formatted, stop_mapping, stop_name, requests,
                   static_response, route_map>>

\* _process_arrivals, and the return of its report.
Reconcile ==
    /\ pc = "process"
    /\ report' = ProcessArrivals(json_data, route_map)
    /\ pc' = "done"
    /\ UNCHANGED <<time_value, formatted, stop_mapping, stop_name, requests,
                   static_response, dynamic_response, route_map, json_data>>

Next ==
    \/ \E name \in StopNames : GetStopEstimates(name)
    \/ \E response \in ClientStaticResponses : StaticAnswer(response)
    \/ \E response \in ClientDynamicResponses : DynamicAnswer(response)
    \/ Reconcile

Spec == Init /\ [][Next]_vars

-----------------------------------------------------------------------------
(* The formatter's properties, under SpecFormat.                           *)

S_MINUS1 == <<CH_MINUS, 49>>                           \* "-1"
S_MINUS2 == <<CH_MINUS, 50>>                           \* "-2"
S_MINUS3 == <<CH_MINUS, 51>>                           \* "-3"
S_MINUS4 == <<CH_MINUS, 52>>                           \* "-4"

\* The status-code strings and their labels.
StatusLabels ==
    { <<<<>>, L_NOT_DEPARTED>>,
      <<S_MINUS1, L_NOT_DEPARTED>>,
      <<S_MINUS2, L_TRAFFIC_CONTROL>>,
      <<S_MINUS3, L_LAST_BUS_PASSED>>,
      <<S_MINUS4, L_NOT_OPERATING>> }

StatusStrings == {p[1] : p \in StatusLabels}

\* C1: a raw time value that is exactly "", "-1", "-2", "-3" or "-4" is
\* formatted as 未發車, 未發車, 交管不停, 末班已過, 今日未營運 in that order; the
\* string is matched as it is, so the empty string, which is no number, has
\* its label too.
C1_StatusLabels ==
    formatted # Pending =>
        \A p \in StatusLabels :
            time_value = p[1] => formatted = Return(p[2])

\* The empty string, formatted.
C1_Witness ==
    /\ time_value = <<>>
    /\ formatted = Return(L_NOT_DEPARTED)

\* The raw time value is the decimal string of an integer n >= 0.
IsSecondCount(s) ==
    /\ s # <<>>
    /\ \A i \in 1..Len(s) : IsDigit(s[i])
    /\ Len(s) > 1 => s[1] # CH_ZERO

\* The label of n seconds, n >= 0 given by its digits: 進站中 for 0, 將到站
\* below 180, and floor(n / 60) minutes from 180 on.
SecondsLabel(d) ==
    IF d = <<>> THEN L_ARRIVING
    ELSE IF MagLess(d, NatDigits(SOON_LIMIT)) THEN L_SOON
    ELSE DigitChars(MagDiv(d, SECONDS_PER_MINUTE)) \o L_MINUTES

\* C2: a raw time value that parses as an integer n >= 0 is formatted as
\* 進站中 when n = 0, 將到站 when 0 < n < 180, and "<floor(n / 60)>分" when
\* n >= 180.
C2_SecondsLabel ==
    (formatted # Pending /\ IsSecondCount(time_value)) =>
        formatted = Return(SecondsLabel(StripZeros(DigitsOf(time_value))))

\* The raw time value is no status-code string and does not parse as a
\* non-negative integer.
Unparseable(s) ==
    /\ s \notin StatusStrings
    /\ \/ "error" \in DOMAIN ParseInt(s)
       \/ ParseInt(s).neg

\* C3 as it is stated: a raw time value that is no status-code string and
\* does not parse as a non-negative integer, "-5" and "-1 " among them, is
\* formatted as 資料格式錯誤.
C3_Original ==
    (formatted # Pending /\ Unparseable(time_value)) =>
        formatted = Return(L_MALFORMED)

\* The label of a negative count, by its magnitude.
NegativeCountLabel(mag) ==
    IF mag = <<1>> THEN L_NOT_DEPARTED
    ELSE IF mag = <<2>> THEN L_TRAFFIC_CONTROL
    ELSE IF mag = <<3>> THEN L_LAST_BUS_PASSED
    ELSE IF mag = <<4>> THEN L_NOT_OPERATING
    ELSE L_ANOMALY

\* C3: a raw time value that is no status-code string is formatted as
\* 資料格式錯誤 exactly when int() rejects it; one that int() reads as a
\* negative integer is formatted as the status label of that integer when
\* it is -1, -2, -3 or -4, and as 數據異常 otherwise; no exception leaves
\* the formatter.
C3_MalformedOrNegative ==
    (formatted # Pending /\ Unparseable(time_value)) =>
        /\ formatted.kind = "return"
        /\ "error" \in DOMAIN ParseInt(time_value) =>
                formatted = Return(L_MALFORMED)
        /\ "error" \notin DOMAIN ParseInt(time_value) =>
                formatted = Return(NegativeCountLabel(ParseInt(time_value).mag))

\* "-1 " formatted: int() reads it as -1.
C3_Witness ==
    /\ time_value = S_MINUS1 \o <<CH_SPACE>>
    /\ formatted = Return(L_NOT_DEPARTED)

-----------------------------------------------------------------------------
(* The route map's properties, under SpecRoutes.                           *)

\* The route rows of the answered page, in page order.
RouteRows ==
    IF "body" \in DOMAIN static_response
    THEN SelectSeq(static_response.body, LAMBDA row : row.class \in ROW_CLASSES)
    ELSE <<>>

\* id with a leading "tte" taken off.
StripTagPrefix(id) ==
    IF Len(id) >= Len(TTE) /\ SubSeq(id, 1, Len(TTE)) = TTE
    THEN SubSeq(id, Len(TTE) + 1, Len(id))
    ELSE id

\* The record a row's cells give.
RowRecord(row) ==
    [route |-> IF row.cols[1].a = None THEN NA ELSE Strip(row.cols[1].a[1]),
     stop |-> IF row.cols[2].a = None THEN NA ELSE Strip(row.cols[2].a[1]),
     direction |-> Strip(row.cols[3].text)]

\* The rows of four columns.
FourColumnRows == {i \in 1..Len(RouteRows) : Len(RouteRows[i].cols) = ROW_COLUMNS}

\* The last row of rows whose key is k.
LastWith(rows, Key(_), k) ==
    CHOOSE i \in rows : Key(i) = k /\ \A j \in rows : Key(j) = k => j <= i

\* C9 as it is stated: the map has one entry per route row of four columns,
\* keyed by the time cell's id with the "tte" prefix stripped, rows of any
\* other column count give nothing, and of two rows with one key the later
\* row's route, stop and direction are kept.
C9_Original ==
    (pc = "done" /\ route_map.kind = "return") =>
        LET Key(i) == StripTagPrefix(RouteRows[i].cols[4].id[1])
        IN  /\ \A i \in FourColumnRows : RouteRows[i].cols[4].id # None
            /\ DOMAIN route_map.value = {Key(i) : i \in FourColumnRows}
            /\ \A k \in DOMAIN route_map.value :
                   route_map.value[k] =
                       RowRecord(RouteRows[LastWith(FourColumnRows, Key, k)])

\* The rows of four columns whose time cell has an id that is not empty.
KeyedRows ==
    {i \in FourColumnRows :
        /\ RouteRows[i].cols[4].id # None
        /\ RouteRows[i].cols[4].id[1] # <<>>}

\* C9: the map has one entry per key of the route rows that have exactly
\* four columns and a time cell with a non-empty id; a row's key is that id
\* with every occurrence of "tte" removed ("tte482" gives "482", "8tte"
\* gives "8"); rows of another column count, and rows whose time cell has
\* no id or an empty one, give nothing; of the rows with one key the last
\* one's route, stop and direction are kept.
C9_RouteMap ==
    (pc = "done" /\ route_map.kind = "return") =>
        LET Key(i) == Replace(RouteRows[i].cols[4].id[1], TTE, <<>>)
        IN  /\ DOMAIN route_map.value = {Key(i) : i \in KeyedRows}
            /\ \A k \in DOMAIN route_map.value :
                   route_map.value[k] =
                       RowRecord(RouteRows[LastWith(KeyedRows, Key, k)])

\* Two rows of four columns with ids "tte8" and "8tte", in either order,
\* and different routes, then a row of four columns without an id: one
\* key, the later row's record.
C9_Witness ==
    /\ pc = "done"
    /\ route_map.kind = "return"
    /\ Len(RouteRows) = 3
    /\ FourColumnRows = {1, 2, 3}
    /\ KeyedRows = {1, 2}
    /\ RouteRows[1].cols[4].id # RouteRows[2].cols[4].id
    /\ RowRecord(RouteRows[1]) # RowRecord(RouteRows[2])
    /\ DOMAIN route_map.value = {S_8}
    /\ route_map.value[S_8] = RowRecord(RouteRows[2])

-----------------------------------------------------------------------------
(* The reconciliation's properties, under SpecProcess.                     *)

\* The entries of the feed, in feed order.
FeedStops == IF "Stop" \in DOMAIN json_data THEN json_data.Stop ELSE <<>>

\* The places of the commas of s.
Commas(s) == {i \in 1..Len(s) : s[i] = CH_COMMA}

\* The value at position k, from 0, of the comma-separated s.
Position(s, k) ==
    LET before == IF k = 0 THEN 0
                  ELSE CHOOSE i \in Commas(s) :
                           Cardinality({j \in Commas(s) : j <= i}) = k
        after == IF Cardinality(Commas(s)) <= k THEN Len(s) + 1
                 ELSE CHOOSE i \in Commas(s) :
                          Cardinality({j \in Commas(s) : j <= i}) = k + 1
    IN  SubSeq(s, before + 1, after - 1)

\* The signals: the entries that have "n1" with at least 8 values.
Signals ==
    {i \in 1..Len(FeedStops) :
        /\ "n1" \in DOMAIN FeedStops[i]
        /\ Cardinality(Commas(FeedStops[i].n1)) + 1 >= N1_FIELDS}

RawTimeOf(i) == Position(FeedStops[i].n1, 7)
DynamicKeyOf(i) == Position(FeedStops[i].n1, 1)

\* C4: the report has as many arrivals as the feed has entries with an "n1"
\* of at least 8 comma-separated values, whether or not the route map has a
\* record for them, and each arrival carries its entry's position-7 value
\* as raw_time_value and position-1 value as stop_dynamic_id, unchanged.
C4_NoSignalDropped ==
    (pc = "done" /\ report.kind = "return") =>
        LET arrivals == report.value.arrivals
        IN  /\ Len(arrivals) = Cardinality(Signals)
            /\ \A i \in Signals :
                   Cardinality({k \in 1..Len(arrivals) :
                                   /\ arrivals[k].raw_time_value = RawTimeOf(i)
                                   /\ arrivals[k].stop_dynamic_id = DynamicKeyOf(i)})
                   = Cardinality({j \in Signals :
                                   /\ RawTimeOf(j) = RawTimeOf(i)
                                   /\ DynamicKeyOf(j) = DynamicKeyOf(i)})

\* Two signals, an entry that is none, and an empty route map: two
\* arrivals.
C4_Witness ==
    /\ pc = "done"
    /\ report.kind = "return"
    /\ route_map = <<>>
    /\ Len(FeedStops) = 3
    /\ Cardinality(Signals) = 2
    /\ Len(report.value.arrivals) = 2
    /\ report.value.arrivals[1].raw_time_value # report.value.arrivals[2].raw_time_value

\* The arrivals of the loop, in feed order, before the sort.
FeedOrder == ArrivalsOf(FeedStops, route_map).value

\* C5: the arrivals of the report are in ascending order of route, by code
\* point, and the arrivals of one route are in the order of their entries
\* in the feed.
C5_SortedStable ==
    (pc = "done" /\ report.kind = "return") =>
        LET arrivals == report.value.arrivals
        IN  /\ \A i, j \in 1..Len(arrivals) :
                   i < j => ~StrLess(arrivals[j].route, arrivals[i].route)
            /\ Len(arrivals) = Len(FeedOrder)
            /\ \A r \in {arrivals[i].route : i \in 1..Len(arrivals)} :
                   SelectSeq(arrivals, LAMBDA x : x.route = r)
                   = SelectSeq(FeedOrder, LAMBDA x : x.route = r)

\* Two different arrivals of one route, kept in feed order, behind an
\* arrival of a lesser route that came last in the feed.
C5_Witness ==
    /\ pc = "done"
    /\ report.kind = "return"
    /\ Len(report.value.arrivals) = 3
    /\ report.value.arrivals[1] = FeedOrder[3]
    /\ report.value.arrivals[2] = FeedOrder[1]
    /\ report.value.arrivals[3] = FeedOrder[2]
    /\ report.value.arrivals[2].route = report.value.arrivals[3].route
    /\ report.value.arrivals[2] # report.value.arrivals[3]

\* str(id) of a JSON number or string.
IdString(id) == IF "int" \in DOMAIN id THEN DigitChars(NatDigits(id.int)) ELSE id.str

\* The route and direction the signal at i is to have.
ExpectedInfo(i) ==
    IF IdString(FeedStops[i].id) \in DOMAIN route_map
    THEN [route |-> route_map[IdString(FeedStops[i].id)].route,
          direction |-> route_map[IdString(FeedStops[i].id)].direction]
    ELSE [route |-> UNKNOWN_ROUTE \o DynamicKeyOf(i) \o CLOSE_PAREN,
          direction |-> NA]

\* The arrival the signal at i is to give, its formatted time aside.
ExpectedArrival(i) ==
    [route |-> ExpectedInfo(i).route,
     direction |-> ExpectedInfo(i).direction,
     raw_time_value |-> RawTimeOf(i),
     stop_dynamic_id |-> DynamicKeyOf(i)]

Unformatted(arrival) ==
    [route |-> arrival.route,
     direction |-> arrival.direction,
     raw_time_value |-> arrival.raw_time_value,
     stop_dynamic_id |-> arrival.stop_dynamic_id]

\* C6: the static record of a signal is the route map's entry under
\* str(id), never the one under its dynamic key: with an entry under
\* str(id) the arrival has that entry's route and direction, and with none,
\* even when there is one under the dynamic key, the arrival has route
\* "未知路線 (ID:<dynamic key>)" and direction "N/A".
C6_LookupById ==
    (pc = "done" /\ report.kind = "return") =>
        LET arrivals == report.value.arrivals
        IN  \A i \in Signals :
                Cardinality({k \in 1..Len(arrivals) :
                                Unformatted(arrivals[k]) = ExpectedArrival(i)})
                = Cardinality({j \in Signals : ExpectedArrival(j) = ExpectedArrival(i)})

\* A signal with no entry under str(id) and one under its dynamic key, and
\* its arrival of the unknown route.
C6_Witness ==
    /\ pc = "done"
    /\ report.kind = "return"
    /\ \E i \in Signals :
           /\ IdString(FeedStops[i].id) \notin DOMAIN route_map
           /\ DynamicKeyOf(i) \in DOMAIN route_map
           /\ \E k \in 1..Len(report.value.arrivals) :
                  /\ report.value.arrivals[k].route
                         = UNKNOWN_ROUTE \o DynamicKeyOf(i) \o CLOSE_PAREN
                  /\ report.value.arrivals[k].direction = NA

\* The signals that have an "id".
WellFormed == {i \in Signals : "id" \in DOMAIN FeedStops[i]}

\* C7: whatever the feed's entries are, without "n1", with an "n1" of
\* fewer than 8 values, without "id", or with a time value that does not
\* parse, _process_arrivals returns a report and raises nothing, and the
\* report has an arrival for every well-formed entry.
C7_NeverAborts ==
    pc = "done" =>
        /\ report.kind = "return"
        /\ Len(report.value.arrivals) >= Cardinality(WellFormed)

-----------------------------------------------------------------------------
(* The client's properties, under Spec.                                    *)

\* The stop name has no identifier in the mapping.
Unresolved(mapping, name) ==
    name \notin DOMAIN mapping \/ mapping[name] = <<>>

\* C8: a call of get_stop_estimates with a stop name that has no identifier
\* in the stop mapping returns the empty report, empty arrivals and empty
\* update time, raises nothing, sends neither the static nor the dynamic
\* request, and leaves the stop mapping as it was.
C8_UnresolvedStop ==
    [][(pc \in {"idle", "done"} /\ Unresolved(stop_mapping, stop_name')) =>
            /\ pc' = "done"
            /\ report' = Return([arrivals |-> <<>>, update_time |-> <<>>])
            /\ requests' = [static |-> 0, dynamic |-> 0]
            /\ static_response' = Pending
            /\ dynamic_response' = Pending
            /\ stop_mapping' = stop_mapping]_vars

\* A call with a name the mapping does not have has returned.
C8_Witness ==
    /\ pc = "done"
    /\ stop_name # <<>>
    /\ stop_name \notin DOMAIN stop_mapping
    /\ report = Return([arrivals |-> <<>>, update_time |-> <<>>])
    /\ requests = [static |-> 0, dynamic |-> 0]

\* The answer to a request is a failure: a transport error, a 4xx or 5xx
\* status, or, for the feed, a body that is no JSON.
StaticFailed ==
    /\ static_response # Pending
    /\ \/ "error" \in DOMAIN static_response
       \/ static_response.status >= 400
DynamicFailed ==
    /\ dynamic_response # Pending
    /\ \/ "error" \in DOMAIN dynamic_response
       \/ dynamic_response.status >= 400
       \/ "invalid" \in DOMAIN dynamic_response.body

\* C10: in one call for a resolved stop each of the two requests is sent at
\* most once; the reconciliation starts, and a report is returned, only
\* after both fetches have succeeded; a fetch that fails has its exception
\* reach the caller and no report is returned; after a failed static fetch
\* the dynamic request is not sent.
C10_FetchDiscipline ==
    /\ requests.static <= 1
    /\ requests.dynamic <= 1
    /\ requests.dynamic = 1 => (static_response # Pending /\ ~StaticFailed)
    /\ (pc = "process" \/ (pc = "done" /\ requests.static = 1 /\ report.kind = "return")) =>
            /\ static_response # Pending /\ ~StaticFailed
            /\ dynamic_response # Pending /\ ~DynamicFailed
            /\ requests = [static |-> 1, dynamic |-> 1]
    /\ StaticFailed =>
            /\ pc = "done"
            /\ report.kind = "raise"
            /\ requests.dynamic = 0
            /\ dynamic_response = Pending
    /\ DynamicFailed =>
            /\ pc = "done"
            /\ report.kind = "raise"

\* The static fetch has failed: the exception is the call's outcome and the
\* dynamic request was not sent.
C10_Witness ==
    /\ StaticFailed
    /\ pc = "done"
    /\ report.kind = "raise"
    /\ requests = [static |-> 1, dynamic |-> 0]

=============================================================================
